---- MODULE Spec2Model ----
(***************************************************************************)
(* Content synchronisation and site lock of the portfolio application      *)
(* (src/App.tsx, component AppContent).                                    *)
(*                                                                         *)
(* The component is modelled as React runs it: an event (user input, a    *)
(* store response, a timer) runs its handler to completion and commits a  *)
(* render; the passive effects (useEffect) whose dependencies changed in  *)
(* that render run afterwards, as one flush, before any other event is    *)
(* handled.  The committed render between a handler and its effects is a  *)
(* state of the model.                                                     *)
(***************************************************************************)
EXTENDS Integers, Sequences, FiniteSets, TLC

VARIABLES
  firestore,        \* TRUE iff the store client exists (import from ./firebase)
  remote,           \* the document portfolio/data in the store
  language,         \* useLanguage().language
  currentPage, selectedProject, isAuthenticated, isSiteUnlocked,
  personalInfo, workExperience, projects, certifications, skills, themeSettings,
  isLoading, error,
  pending,          \* effects whose dependencies changed in the committed render
  reads,            \* fetchData calls that have not finished
  timers,           \* pending setTimeout callbacks of the debounced save
  idleMs,           \* time since the debounced save was last called (capped)
  burst,            \* calls of the debounced save since its timer last fired
  nWrites,          \* docRef.set calls issued so far (capped)
  lastLoad,         \* the locale and the outcome of the last fetchData that finished
  unlockedSince,    \* an unlock succeeded since the protection flag last became true
  failedAttempts,   \* unlock submissions that returned false (capped)
  nEdits, nLocale,  \* inputs used so far
  lastEvent         \* the last step, when it was a store call or a handler that returns

content == <<personalInfo, workExperience, projects, certifications, skills, themeSettings>>
nav     == <<currentPage, selectedProject, isAuthenticated, isSiteUnlocked>>
sync    == <<remote, reads, timers, idleMs, burst, nWrites, lastLoad>>
vars    == <<firestore, language, content, nav, isLoading, error, pending, sync,
             unlockedSince, failedAttempts, nEdits, nLocale, lastEvent>>

----------------------------------------------------------------------------
(* Bounds of the model *)
MaxEdits  == 2     \* calls of the Settings editor's setters in one run
MaxLocale == 2     \* locale changes in one run
MaxLocaleEditing == 1  \* locale changes in one run with edits
MaxBurst  == 2     \* the count of coalesced calls of the debounced save stops here
MaxWrites == 3     \* the count of store writes stops here
MaxAttempts == 2   \* the count of failed unlock submissions stops here

----------------------------------------------------------------------------
(* Strings that the code inspects are sequences of characters *)
DataPrefix  == <<"d","a","t","a",":">>
EmptyStr    == <<>>
InlineUrl   == DataPrefix \o <<"A">>            \* an inline-encoded payload
NearUrl     == <<"d","a","t","a","/","A">>      \* not an inline payload
DefaultUrl  == <<"h","t","t","p","s",":","d">>
RemoteUrl   == <<"h","t","t","p","s",":","r">>
\* the placeholder URLs of lines 140 and 141, abbreviated
ProjectPlaceholder == <<"h","t","t","p","s",":","p","r","o","j","e","c","t">>
CertPlaceholder    == <<"h","t","t","p","s",":","c","e","r","t">>

startsWith(s, prefix) ==
  /\ Len(s) >= Len(prefix)
  /\ SubSeq(s, 1, Len(prefix)) = prefix

Languages == {"vi", "en"}
Pages == {"Introduction", "Experience", "Projects", "Certifications", "Skills", "Settings"}
NavTargets == {"Introduction", "Projects", "Settings"}

(* Locale bundles and the initial theme (./constants) *)
PERSONAL_INFO_VI   == [name |-> "ten", avatarUrl |-> DefaultUrl, logoUrl |-> DefaultUrl]
PERSONAL_INFO_EN   == [name |-> "name", avatarUrl |-> DefaultUrl, logoUrl |-> DefaultUrl]
WORK_EXPERIENCE_VI == <<"kinh nghiem">>
WORK_EXPERIENCE_EN == <<"experience">>
PROJECTS_VI        == <<[id |-> "p1", title |-> "du an", imageUrl |-> DefaultUrl]>>
PROJECTS_EN        == <<[id |-> "p1", title |-> "project", imageUrl |-> DefaultUrl]>>
CERTIFICATIONS_VI  == <<[id |-> "c1", title |-> "chung chi", imageUrl |-> DefaultUrl]>>
CERTIFICATIONS_EN  == <<[id |-> "c1", title |-> "certificate", imageUrl |-> DefaultUrl]>>
SKILLS_DATA_VI     == <<"ky nang">>
SKILLS_DATA_EN     == <<"skills">>
INITIAL_THEME_SETTINGS ==
  [bgImageUrl |-> EmptyStr, backgroundMusicUrl |-> EmptyStr,
   isPasswordProtectionEnabled |-> FALSE, sitePassword |-> "abc123"]

PersonalInfoFields == {"name", "avatarUrl", "logoUrl"}
ThemeFields == {"bgImageUrl", "backgroundMusicUrl", "isPasswordProtectionEnabled", "sitePassword"}
Collections == {"workExperience", "projects", "certifications", "skills"}

(* language === 'vi' ? X_VI : X_EN *)
basePersonalInfo(lang)   == IF lang = "vi" THEN PERSONAL_INFO_VI ELSE PERSONAL_INFO_EN
baseWorkExperience(lang) == IF lang = "vi" THEN WORK_EXPERIENCE_VI ELSE WORK_EXPERIENCE_EN
baseProjects(lang)       == IF lang = "vi" THEN PROJECTS_VI ELSE PROJECTS_EN
baseCertifications(lang) == IF lang = "vi" THEN CERTIFICATIONS_VI ELSE CERTIFICATIONS_EN
baseSkills(lang)         == IF lang = "vi" THEN SKILLS_DATA_VI ELSE SKILLS_DATA_EN

(* The aggregate of the six values, as the save effect and fetchData build it *)
State(pi, we, pr, ce, sk, th) ==
  [personalInfo |-> pi, workExperience |-> we, projects |-> pr,
   certifications |-> ce, skills |-> sk, themeSettings |-> th]
Memory == State(personalInfo, workExperience, projects, certifications, skills, themeSettings)
Bundle(lang) ==
  State(basePersonalInfo(lang), baseWorkExperience(lang), baseProjects(lang),
        baseCertifications(lang), baseSkills(lang), INITIAL_THEME_SETTINGS)

Min(a, b) == IF a < b THEN a ELSE b

(* { ...over, ...base }: the operands of the spread swapped *)
spreadBaseWins(base, over) ==
  [f \in (DOMAIN base) \cup (DOMAIN over) |->
     IF f \in DOMAIN base THEN base[f] ELSE over[f]]

(* { ...base, ...over }: a field of over wins, a field over lacks keeps base's *)
spread(base, over) ==
  [f \in (DOMAIN base) \cup (DOMAIN over) |->
     IF f \in DOMAIN over THEN over[f] ELSE base[f]]

(* data.k || fallback; a document field is either missing or holds a value of
   the field's type, and an empty array is truthy *)
orElse(data, k, fallback) == IF k \in DOMAIN data THEN data[k] ELSE fallback

NoObject == [x \in {} |-> TRUE]   \* {}

----------------------------------------------------------------------------
(* The store: the document is absent, or holds a record of some of the six
   top-level fields *)
Absent    == [exists |-> FALSE, data |-> NoObject]
Stored(d) == [exists |-> TRUE, data |-> d]

(* A document written by an earlier session that lacks some fields *)
DocPartial ==
  [personalInfo |-> [avatarUrl |-> RemoteUrl],
   projects |-> <<>>,
   skills |-> <<"remote skill">>,
   themeSettings |-> [isPasswordProtectionEnabled |-> TRUE]]
(* A complete document *)
DocFull ==
  State([name |-> "remote", avatarUrl |-> RemoteUrl, logoUrl |-> EmptyStr],
        <<"remote job">>,
        <<[id |-> "p9", title |-> "remote", imageUrl |-> RemoteUrl]>>,
        <<>>,
        <<"remote skill">>,
        [bgImageUrl |-> RemoteUrl, backgroundMusicUrl |-> EmptyStr,
         isPasswordProtectionEnabled |-> FALSE, sitePassword |-> "s3cret"])
InitDocs == {DocPartial, DocFull}

(* Documents that hold any subset of the six fields *)
Optional(k, values) == {NoObject} \cup {[x \in {k} |-> v] : v \in values}
Join(a, b) == [k \in (DOMAIN a) \cup (DOMAIN b) |-> IF k \in DOMAIN a THEN a[k] ELSE b[k]]
PartialDocs ==
  {Join(pi, Join(th, Join(we, Join(pr, Join(ce, sk))))) :
     pi \in Optional("personalInfo", {DocPartial.personalInfo}),
     th \in Optional("themeSettings", {DocPartial.themeSettings}),
     we \in Optional("workExperience", {DocFull.workExperience}),
     pr \in Optional("projects", {<<>>}),
     ce \in Optional("certifications", {DocFull.certifications}),
     sk \in Optional("skills", {DocFull.skills})}

----------------------------------------------------------------------------
(* the language effect without setSkills *)
languageEffectKeepingSkills(mem, lang) ==
  [mem EXCEPT !.personalInfo   = spread(mem.personalInfo, basePersonalInfo(lang)),
              !.workExperience = baseWorkExperience(lang),
              !.projects       = baseProjects(lang),
              !.certifications = baseCertifications(lang)]

(* Language effect, lines 48-62: the setState calls applied to the memory *)
languageEffect(mem, lang) ==
  [mem EXCEPT !.personalInfo   = spread(mem.personalInfo, basePersonalInfo(lang)),
              !.workExperience = baseWorkExperience(lang),
              !.projects       = baseProjects(lang),
              !.certifications = baseCertifications(lang),
              !.skills         = baseSkills(lang)]

(* fetchData adding the stored collections to the ones in memory *)
fetchApplyAppending(mem, data, lang) ==
  State(spread(basePersonalInfo(lang), orElse(data, "personalInfo", NoObject)),
        mem.workExperience \o orElse(data, "workExperience", <<>>),
        mem.projects \o orElse(data, "projects", <<>>),
        mem.certifications \o orElse(data, "certifications", <<>>),
        mem.skills \o orElse(data, "skills", <<>>),
        spread(INITIAL_THEME_SETTINGS, orElse(data, "themeSettings", NoObject)))

(* fetchData reading the locale current when the read resolves *)
fetchApplyCurrentLocale(mem, data, lang) ==
  State(spread(basePersonalInfo(language), orElse(data, "personalInfo", NoObject)),
        orElse(data, "workExperience", baseWorkExperience(language)),
        orElse(data, "projects", baseProjects(language)),
        orElse(data, "certifications", baseCertifications(language)),
        orElse(data, "skills", baseSkills(language)),
        spread(INITIAL_THEME_SETTINGS, orElse(data, "themeSettings", NoObject)))

(* fetchData, document-exists branch, lines 89-104 *)
fetchApply(mem, data, lang) ==
  State(spread(basePersonalInfo(lang), orElse(data, "personalInfo", NoObject)),
        orElse(data, "workExperience", baseWorkExperience(lang)),
        orElse(data, "projects", baseProjects(lang)),
        orElse(data, "certifications", baseCertifications(lang)),
        orElse(data, "skills", baseSkills(lang)),
        spread(INITIAL_THEME_SETTINGS, orElse(data, "themeSettings", NoObject)))

(* the initial document built from the English bundle *)
initialStateEnglish ==
  State(PERSONAL_INFO_EN, WORK_EXPERIENCE_EN, PROJECTS_EN, CERTIFICATIONS_EN,
        SKILLS_DATA_EN, INITIAL_THEME_SETTINGS)

(* fetchData, document-absent branch, lines 107-114 *)
initialState ==
  State(PERSONAL_INFO_VI, WORK_EXPERIENCE_VI, PROJECTS_VI, CERTIFICATIONS_VI,
        SKILLS_DATA_VI, INITIAL_THEME_SETTINGS)

(* saveStateToFirestore, lines 135-141.  The deep copy through JSON is the
   identity on these values (strings, booleans, arrays and objects of them);
   the copy is what is changed, the argument is not. *)
blankIfInline(rec, f) ==
  IF f \in DOMAIN rec /\ startsWith(rec[f], DataPrefix)
  THEN [rec EXCEPT ![f] = EmptyStr] ELSE rec
placeholderIfInline(item, url) ==
  IF "imageUrl" \in DOMAIN item /\ startsWith(item.imageUrl, DataPrefix)
  THEN [item EXCEPT !.imageUrl = url] ELSE item
(* the save that forgets the logo *)
sanitizeButLogo(state) ==
  [state EXCEPT
     !.personalInfo   = blankIfInline(state.personalInfo, "avatarUrl"),
     !.themeSettings  = blankIfInline(blankIfInline(state.themeSettings, "bgImageUrl"),
                                      "backgroundMusicUrl"),
     !.projects       = [i \in DOMAIN state.projects |->
                           placeholderIfInline(state.projects[i], ProjectPlaceholder)],
     !.certifications = [i \in DOMAIN state.certifications |->
                           placeholderIfInline(state.certifications[i], CertPlaceholder)]]

sanitize(state) ==
  [state EXCEPT
     !.personalInfo   = blankIfInline(blankIfInline(state.personalInfo, "avatarUrl"), "logoUrl"),
     !.themeSettings  = blankIfInline(blankIfInline(state.themeSettings, "bgImageUrl"),
                                      "backgroundMusicUrl"),
     !.projects       = [i \in DOMAIN state.projects |->
                           placeholderIfInline(state.projects[i], ProjectPlaceholder)],
     !.certifications = [i \in DOMAIN state.certifications |->
                           placeholderIfInline(state.certifications[i], CertPlaceholder)]]

(* debounce, lines 66-74: the pending timers after a call with args *)
WaitFor == 2000
TickMs  == WaitFor \div 2
(* debounce without clearTimeout *)
debounceNoClear(ts, args) == Append(ts, [remaining |-> WaitFor, args |-> args])
debounce(ts, args) == <<[remaining |-> WaitFor, args |-> args]>>

(* the load effect that fetches without a store client *)
loadEffectFetchesAlways(fs) == TRUE

(* Load effect guard, lines 78-82: fetchData is called iff the client exists *)
loadEffectFetches(fs) == fs

(* Save effect guard, lines 153-155 *)
saveEffectRuns(loading, fs) == ~(loading \/ ~fs)

(* the lock effect that only ever locks *)
lockEffectOnlyLocks(enabled) == IF enabled THEN FALSE ELSE isSiteUnlocked

(* Lock effect, lines 169-175: the value given to setIsSiteUnlocked *)
lockEffect(enabled) == IF enabled THEN FALSE ELSE TRUE

(* useState(firebaseInitializationError), line 44 *)
NoError == "null"
firebaseInitializationError == IF firestore THEN NoError ELSE "firebase initialization error"
LoadError ==
  "Could not load data from the cloud. Displaying default content. Please check Firestore permissions."

Effects == {"language", "load", "save", "lock"}
NoLoad  == [lang |-> "vi", outcome |-> "none"]
Event(op, arg, ret) == [op |-> op, arg |-> arg, ret |-> ret]
NoEvent == Event("", "", "")

InitWith(docs) ==
  /\ firestore \in BOOLEAN
  /\ remote \in IF firestore THEN {Absent} \cup {Stored(d) : d \in docs} ELSE {Absent}
  /\ language \in Languages
  /\ currentPage = "Introduction"
  /\ selectedProject = <<>>
  /\ isAuthenticated = FALSE
  /\ isSiteUnlocked = FALSE
  /\ personalInfo = PERSONAL_INFO_VI
  /\ workExperience = WORK_EXPERIENCE_VI
  /\ projects = PROJECTS_VI
  /\ certifications = CERTIFICATIONS_VI
  /\ skills = SKILLS_DATA_VI
  /\ themeSettings = INITIAL_THEME_SETTINGS
  /\ isLoading = TRUE
  /\ error = firebaseInitializationError
  /\ pending = Effects
  /\ reads = <<>>
  /\ timers = <<>>
  /\ idleMs = WaitFor
  /\ burst = 0
  /\ nWrites = 0
  /\ lastLoad = NoLoad
  /\ unlockedSince = FALSE
  /\ failedAttempts = 0
  /\ nEdits = 0
  /\ nLocale = 0
  /\ lastEvent = NoEvent

Init == InitWith(InitDocs)

(* The six setState calls of a handler or an effect *)
SetMemory(mem) ==
  /\ personalInfo' = mem.personalInfo
  /\ workExperience' = mem.workExperience
  /\ projects' = mem.projects
  /\ certifications' = mem.certifications
  /\ skills' = mem.skills
  /\ themeSettings' = mem.themeSettings

(* the lock effect depending on the whole themeSettings object, which is a
   new reference whenever the six values are set *)
ChangedWithLockOnTheme(contentChanged, loadingAfter, flagAfter) ==
  (IF contentChanged \/ loadingAfter # isLoading THEN {"save"} ELSE {})
  \cup (IF contentChanged \/ flagAfter # themeSettings.isPasswordProtectionEnabled
        THEN {"lock"} ELSE {})

(* Effects to run after a render in which the six values (new references),
   isLoading or the protection flag changed *)
Changed(contentChanged, loadingAfter, flagAfter) ==
  (IF contentChanged \/ loadingAfter # isLoading THEN {"save"} ELSE {})
  \cup (IF flagAfter # themeSettings.isPasswordProtectionEnabled THEN {"lock"} ELSE {})

(* The protection flag became true: no unlock has succeeded since *)
SinceAfter(flagAfter) ==
  IF flagAfter /\ ~themeSettings.isPasswordProtectionEnabled THEN FALSE ELSE unlockedSince

(* One flush of the passive effects, in source order.  Every effect reads the
   values of the committed render; its setState calls take effect together. *)
RunEffects ==
  /\ pending # {}
  /\ LET mem1     == IF "language" \in pending THEN languageEffect(Memory, language) ELSE Memory
         fetches  == "load" \in pending /\ loadEffectFetches(firestore)
         loading1 == IF "load" \in pending /\ ~fetches THEN FALSE ELSE isLoading
         saves    == "save" \in pending /\ saveEffectRuns(isLoading, firestore)
     IN /\ SetMemory(mem1)
        /\ isLoading' = loading1
        /\ reads' = IF fetches
                    THEN Append(reads, [lang |-> language, phase |-> "get"]) ELSE reads
        /\ timers' = IF saves THEN debounce(timers, Memory) ELSE timers
        /\ idleMs' = IF saves THEN 0 ELSE idleMs
        /\ burst' = IF saves THEN Min(burst + 1, MaxBurst) ELSE burst
        /\ isSiteUnlocked' = IF "lock" \in pending
                             THEN lockEffect(themeSettings.isPasswordProtectionEnabled)
                             ELSE isSiteUnlocked
        /\ pending' = Changed("language" \in pending, loading1,
                              themeSettings.isPasswordProtectionEnabled)
  /\ lastEvent' = NoEvent
  /\ UNCHANGED <<failedAttempts, firestore, remote, language, currentPage, selectedProject, isAuthenticated,
                 error, nWrites, lastLoad, unlockedSince, nEdits, nLocale>>

----------------------------------------------------------------------------
(* What the component renders, lines 259-307 *)
isLocked == themeSettings.isPasswordProtectionEnabled /\ ~isSiteUnlocked

(* renderPage testing the selected project before the lock *)
renderPageProjectFirst ==
  IF selectedProject # <<>> THEN "ProjectDetail"
  ELSE IF ~isSiteUnlocked THEN "IntroductionLimited"
  ELSE CASE currentPage = "Introduction"   -> "Introduction"
         [] currentPage = "Experience"     -> "Experience"
         [] currentPage = "Projects"       -> "Projects"
         [] currentPage = "Certifications" -> "Certifications"
         [] currentPage = "Skills"         -> "Skills"
         [] currentPage = "Settings"       -> IF isAuthenticated THEN "Settings" ELSE "Login"
         [] OTHER                          -> "Introduction"

(* renderPage without the login gate of the Settings page *)
renderPageOpenSettings ==
  IF ~isSiteUnlocked THEN "IntroductionLimited"
  ELSE IF selectedProject # <<>> THEN "ProjectDetail"
  ELSE CASE currentPage = "Introduction"   -> "Introduction"
         [] currentPage = "Experience"     -> "Experience"
         [] currentPage = "Projects"       -> "Projects"
         [] currentPage = "Certifications" -> "Certifications"
         [] currentPage = "Skills"         -> "Skills"
         [] currentPage = "Settings"       -> "Settings"
         [] OTHER                          -> "Introduction"

renderPage ==
  IF ~isSiteUnlocked THEN "IntroductionLimited"
  ELSE IF selectedProject # <<>> THEN "ProjectDetail"
  ELSE CASE currentPage = "Introduction"   -> "Introduction"
         [] currentPage = "Experience"     -> "Experience"
         [] currentPage = "Projects"       -> "Projects"
         [] currentPage = "Certifications" -> "Certifications"
         [] currentPage = "Skills"         -> "Skills"
         [] currentPage = "Settings"       -> IF isAuthenticated THEN "Settings" ELSE "Login"
         [] OTHER                          -> "Introduction"

(* What AppContent returns, lines 303-331: the spinner while loading *)
View == IF isLoading THEN "LoadingSpinner" ELSE renderPage

(* The interface is rendered (not the spinner) and the effects of the last
   render have run: an event can be handled *)
Idle == pending = {}
Interactive == ~isLoading /\ Idle

Remove(seq, i) == SubSeq(seq, 1, i - 1) \o SubSeq(seq, i + 1, Len(seq))
(* A docRef.set call: what was passed to the save, what is written, and for a
   debounced save the calls it coalesces, the time since the last of them and
   the timers still pending *)
Write(kind, raw, payload, left) ==
  [kind |-> kind, raw |-> raw, payload |-> payload, calls |-> burst, idle |-> idleMs,
   left |-> left]
Loaded(lang, outcome) == [lang |-> lang, outcome |-> outcome]

(* The locale changes (LanguageContext); the switch is part of the interface *)
ChangeLanguage(max) ==
  /\ Interactive
  /\ nLocale < max
  /\ \E l \in Languages \ {language} : language' = l
  /\ lastEvent' = NoEvent
  /\ pending' = {"language", "load"}
  /\ nLocale' = nLocale + 1
  /\ UNCHANGED <<failedAttempts, firestore, content, nav, isLoading, error, sync, unlockedSince, nEdits>>

(* fetchData without the catch: the failure sets no message *)
finallyOnly ==
  /\ UNCHANGED error
  /\ isLoading' = FALSE

(* fetchData with setIsLoading(false) at the end of the try block only *)
catchOnly ==
  /\ error' = LoadError
  /\ UNCHANGED isLoading

(* catch and finally of fetchData, lines 117-122 *)
catchAndFinally ==
  /\ error' = LoadError
  /\ isLoading' = FALSE

(* await docRef.get() returns or throws, lines 88-122 *)
ReadResolve ==
  /\ Idle
  /\ \E i \in DOMAIN reads : \E ok \in BOOLEAN :
       LET r == reads[i] IN
       /\ r.phase = "get"
       /\ IF ~ok THEN
            /\ catchAndFinally
            /\ pending' = Changed(FALSE, isLoading', themeSettings.isPasswordProtectionEnabled)
            /\ reads' = Remove(reads, i)
            /\ lastLoad' = Loaded(r.lang, "failed")
            /\ lastEvent' = Event("fetchData", [lang |-> r.lang, data |-> NoObject], "failed")
            /\ UNCHANGED <<content, nWrites, unlockedSince>>
          ELSE IF remote.exists THEN
            LET mem == fetchApply(Memory, remote.data, r.lang) IN
            /\ SetMemory(mem)
            /\ isLoading' = FALSE
            /\ pending' = Changed(TRUE, FALSE, mem.themeSettings.isPasswordProtectionEnabled)
            /\ unlockedSince' = SinceAfter(mem.themeSettings.isPasswordProtectionEnabled)
            /\ reads' = Remove(reads, i)
            /\ lastLoad' = Loaded(r.lang, "exists")
            /\ lastEvent' = Event("fetchData", [lang |-> r.lang, data |-> remote.data], "exists")
            /\ UNCHANGED <<error, nWrites>>
          ELSE
            \* docRef.set(initialState) is issued and awaited
            /\ reads' = [reads EXCEPT ![i].phase = "set"]
            /\ nWrites' = Min(nWrites + 1, MaxWrites)
            /\ lastEvent' = Event("write", Write("init", initialState, initialState, Len(timers)), "issued")
            /\ UNCHANGED <<content, isLoading, error, pending, lastLoad, unlockedSince>>
  /\ UNCHANGED <<failedAttempts, firestore, remote, language, nav, timers, idleMs, burst, nEdits, nLocale>>

(* await docRef.set(initialState) returns or throws, lines 115-122 *)
InitWriteAck ==
  /\ Idle
  /\ \E i \in DOMAIN reads : \E ok \in BOOLEAN :
       LET r == reads[i] IN
       /\ r.phase = "set"
       /\ remote' = IF ok THEN Stored(initialState) ELSE remote
       /\ error' = IF ok THEN error ELSE LoadError
       /\ lastLoad' = Loaded(r.lang, IF ok THEN "absent" ELSE "absent, write failed")
       /\ reads' = Remove(reads, i)
       /\ lastEvent' = Event("fetchData", [lang |-> r.lang, data |-> NoObject],
                             IF ok THEN "absent" ELSE "absent, write failed")
  /\ isLoading' = FALSE
  /\ pending' = Changed(FALSE, FALSE, themeSettings.isPasswordProtectionEnabled)
  /\ UNCHANGED <<failedAttempts, firestore, language, content, nav, timers, idleMs, burst,
                 nWrites, unlockedSince, nEdits, nLocale>>

(* Time passes while a debounce timer is pending and none is due *)
Tick ==
  /\ Idle
  /\ timers # <<>>
  /\ \A i \in DOMAIN timers : timers[i].remaining > 0
  /\ timers' = [i \in DOMAIN timers |->
                  [timers[i] EXCEPT !.remaining = timers[i].remaining - TickMs]]
  /\ idleMs' = Min(idleMs + TickMs, WaitFor)
  /\ lastEvent' = NoEvent
  /\ UNCHANGED <<failedAttempts, firestore, remote, language, content, nav, isLoading, error, pending, reads,
                 burst, nWrites, lastLoad, unlockedSince, nEdits, nLocale>>

(* The save sanitizing the state it was given in place, without the copy:
   the object in memory changes and the next render sees new values *)
TimerFireInPlace ==
  /\ Idle
  /\ \E i \in DOMAIN timers : \E ok \in BOOLEAN :
       LET stateToSave == sanitize(timers[i].args) IN
       /\ timers[i].remaining = 0
       /\ timers' = Remove(timers, i)
       /\ SetMemory(stateToSave)
       /\ pending' = Changed(TRUE, isLoading, stateToSave.themeSettings.isPasswordProtectionEnabled)
       /\ IF ~firestore
          THEN /\ lastEvent' = NoEvent
               /\ UNCHANGED <<remote, nWrites>>
          ELSE /\ remote' = IF ok THEN Stored(stateToSave) ELSE remote
               /\ nWrites' = Min(nWrites + 1, MaxWrites)
               /\ lastEvent' = Event("write", Write("save", timers[i].args, stateToSave, Len(timers) - 1),
                                     IF ok THEN "stored" ELSE "failed")
  /\ burst' = 0
  /\ UNCHANGED <<failedAttempts, firestore, language, nav, isLoading, error, reads,
                 idleMs, lastLoad, unlockedSince, nEdits, nLocale>>

(* A debounce timer fires: the async save function runs, lines 130-146.  The
   write succeeds or throws; the catch only logs. *)
TimerFire ==
  /\ Idle
  /\ \E i \in DOMAIN timers : \E ok \in BOOLEAN :
       LET stateToSave == sanitize(timers[i].args) IN
       /\ timers[i].remaining = 0
       /\ timers' = Remove(timers, i)
       /\ IF ~firestore
          THEN /\ lastEvent' = NoEvent
               /\ UNCHANGED <<remote, nWrites>>
          ELSE /\ remote' = IF ok THEN Stored(stateToSave) ELSE remote
               /\ nWrites' = Min(nWrites + 1, MaxWrites)
               /\ lastEvent' = Event("write", Write("save", timers[i].args, stateToSave, Len(timers) - 1),
                                     IF ok THEN "stored" ELSE "failed")
  /\ burst' = 0
  /\ UNCHANGED <<failedAttempts, firestore, language, content, nav, isLoading, error, pending, reads,
                 idleMs, lastLoad, unlockedSince, nEdits, nLocale>>

----------------------------------------------------------------------------
(* Navigation, lock and login handlers *)
Passwords == {"abc123", "s3cret", "Abc123"}
Credentials == {<<"Minh", "2004">>, <<"minh", "2004">>, <<"Minh", "2005">>}

(* handlePageChange, lines 233-236 (Header) *)
handlePageChange(targets) ==
  /\ Interactive
  /\ \E page \in targets : currentPage' = page
  /\ lastEvent' = NoEvent
  /\ selectedProject' = <<>>
  /\ UNCHANGED <<failedAttempts, firestore, language, content, isAuthenticated, isSiteUnlocked, isLoading,
                 error, pending, sync, unlockedSince, nEdits, nLocale>>

(* onProjectSelect={setSelectedProject}, line 274 (Projects page) *)
onProjectSelect ==
  /\ Interactive
  /\ renderPage = "Projects"
  /\ \E i \in DOMAIN projects : selectedProject' = <<projects[i]>>
  /\ lastEvent' = NoEvent
  /\ UNCHANGED <<failedAttempts, firestore, language, content, currentPage, isAuthenticated, isSiteUnlocked,
                 isLoading, error, pending, sync, unlockedSince, nEdits, nLocale>>

(* onBack, line 265 (ProjectDetail page) *)
onBack ==
  /\ Interactive
  /\ renderPage = "ProjectDetail"
  /\ selectedProject' = <<>>
  /\ lastEvent' = NoEvent
  /\ UNCHANGED <<failedAttempts, firestore, language, content, currentPage, isAuthenticated, isSiteUnlocked,
                 isLoading, error, pending, sync, unlockedSince, nEdits, nLocale>>

(* handleUnlockSite, lines 238-244 (SiteLockModal, rendered when isLocked) *)
(* the comparison ignoring case *)
LowerCase(str) == IF str = "Abc123" THEN "abc123" ELSE str
passwordMatchesIgnoringCase(password, sitePassword) ==
  LowerCase(password) = LowerCase(sitePassword)

passwordMatches(password, sitePassword) == password = sitePassword

handleUnlockSite(passwords) ==
  /\ Interactive
  /\ isLocked
  /\ \E password \in passwords :
       LET ok == passwordMatches(password, themeSettings.sitePassword) IN
       /\ isSiteUnlocked' = IF ok THEN TRUE ELSE isSiteUnlocked
       /\ unlockedSince' = IF ok THEN TRUE ELSE unlockedSince
       /\ failedAttempts' = IF ok THEN failedAttempts ELSE Min(failedAttempts + 1, MaxAttempts)
       /\ lastEvent' = Event("handleUnlockSite", password, IF ok THEN "true" ELSE "false")
  /\ UNCHANGED <<firestore, language, content, currentPage, selectedProject, isAuthenticated,
                 isLoading, error, pending, sync, nEdits, nLocale>>

(* handleAdminLoginForUnlock, lines 246-252 (SiteLockModal) *)
adminCredentials(username, password) == username = "Minh" /\ password = "2004"

(* the admin unlock that also authenticates *)
handleAdminLoginAuthenticates ==
  /\ Interactive
  /\ isLocked
  /\ \E c \in Credentials :
       LET username == c[1]
           password == c[2]
           ok == adminCredentials(username, password) IN
       /\ isSiteUnlocked' = IF ok THEN TRUE ELSE isSiteUnlocked
       /\ isAuthenticated' = IF ok THEN TRUE ELSE isAuthenticated
       /\ unlockedSince' = IF ok THEN TRUE ELSE unlockedSince
       /\ lastEvent' = Event("handleAdminLoginForUnlock", <<username, password>>,
                             IF ok THEN "true" ELSE "false")
       /\ failedAttempts' = IF ok THEN failedAttempts ELSE Min(failedAttempts + 1, MaxAttempts)
  /\ UNCHANGED <<firestore, language, content, currentPage, selectedProject,
                 isLoading, error, pending, sync, nEdits, nLocale>>

handleAdminLoginForUnlock ==
  /\ Interactive
  /\ isLocked
  /\ \E c \in Credentials :
       LET username == c[1]
           password == c[2]
           ok == adminCredentials(username, password) IN
       /\ isSiteUnlocked' = IF ok THEN TRUE ELSE isSiteUnlocked
       /\ unlockedSince' = IF ok THEN TRUE ELSE unlockedSince
       /\ lastEvent' = Event("handleAdminLoginForUnlock", <<username, password>>,
                             IF ok THEN "true" ELSE "false")
       /\ failedAttempts' = IF ok THEN failedAttempts ELSE Min(failedAttempts + 1, MaxAttempts)
  /\ UNCHANGED <<firestore, language, content, currentPage, selectedProject, isAuthenticated,
                 isLoading, error, pending, sync, nEdits, nLocale>>

(* handleLogout, lines 254-257 (Header) *)
handleLogout ==
  /\ Interactive
  /\ isAuthenticated' = FALSE
  /\ currentPage' = "Introduction"
  /\ lastEvent' = Event("handleLogout", "", "")
  /\ UNCHANGED <<failedAttempts, firestore, language, content, selectedProject, isSiteUnlocked,
                 isLoading, error, pending, sync, unlockedSince, nEdits, nLocale>>

(* onLoginSuccess, line 296 (Login page) *)
onLoginSuccess ==
  /\ Interactive
  /\ renderPage = "Login"
  /\ isAuthenticated' = TRUE
  /\ lastEvent' = Event("onLoginSuccess", "", "")
  /\ UNCHANGED <<failedAttempts, firestore, language, content, currentPage, selectedProject, isSiteUnlocked,
                 isLoading, error, pending, sync, unlockedSince, nEdits, nLocale>>

----------------------------------------------------------------------------
(* The setters handed to the Settings editor, lines 281-294: the editor is
   rendered, and it calls a setter with a new value *)
EditedProjects ==
  <<[id |-> "p1", title |-> "edited", imageUrl |-> InlineUrl],
    [id |-> "p2", title |-> "added", imageUrl |-> NearUrl]>>
EditedCertifications ==
  <<[id |-> "c1", title |-> "edited", imageUrl |-> InlineUrl],
    [id |-> "c2", title |-> "added", imageUrl |-> RemoteUrl]>>
EditUrls == {InlineUrl, NearUrl}

Edit(mem) ==
  /\ Interactive
  /\ renderPage = "Settings"
  /\ nEdits < MaxEdits
  /\ SetMemory(mem)
  /\ pending' = Changed(TRUE, isLoading, mem.themeSettings.isPasswordProtectionEnabled)
  /\ unlockedSince' = SinceAfter(mem.themeSettings.isPasswordProtectionEnabled)
  /\ nEdits' = nEdits + 1
  /\ lastEvent' = NoEvent
  /\ UNCHANGED <<failedAttempts, firestore, language, nav, isLoading, error, sync, nLocale>>

setPersonalInfo(urls) ==
  \E f \in {"avatarUrl", "logoUrl"}, v \in urls :
    Edit([Memory EXCEPT !.personalInfo[f] = v])

setThemeSettings(fields) ==
  \E f \in fields :
    LET v == CASE f = "isPasswordProtectionEnabled" -> ~themeSettings.isPasswordProtectionEnabled
               [] f = "sitePassword" -> "s3cret"
               [] OTHER -> InlineUrl
    IN Edit([Memory EXCEPT !.themeSettings[f] = v])

setWorkExperience == Edit([Memory EXCEPT !.workExperience = <<"edited job">>])

setProjects == Edit([Memory EXCEPT !.projects = EditedProjects])

setCertifications == Edit([Memory EXCEPT !.certifications = EditedCertifications])

setSkills == Edit([Memory EXCEPT !.skills = <<"edited skill">>])

----------------------------------------------------------------------------
(* Synchronisation: every operation of the load and save paths and every
   setter, with the navigation that opens the editor *)
Next ==
  \/ RunEffects
  \/ ChangeLanguage(MaxLocaleEditing)
  \/ ReadResolve
  \/ InitWriteAck
  \/ Tick
  \/ TimerFire
  \/ handlePageChange({"Settings"})
  \/ onLoginSuccess
  \/ setPersonalInfo(EditUrls)
  \/ setThemeSettings({"bgImageUrl", "backgroundMusicUrl"})
  \/ setWorkExperience
  \/ setProjects
  \/ setCertifications
  \/ setSkills

Spec == Init /\ [][Next]_vars

(* Loading: a session without edits, over documents with any fields missing *)
InitLoad == InitWith(PartialDocs \cup {DocFull})

NextLoad ==
  \/ RunEffects
  \/ ChangeLanguage(MaxLocale)
  \/ ReadResolve
  \/ InitWriteAck
  \/ Tick
  \/ TimerFire

LoadSpec == InitLoad /\ [][NextLoad]_vars

(* Lock and navigation under one locale: every handler of the interface, the
   editor changing the protection flag and the site password *)
NextLock ==
  \/ RunEffects
  \/ ReadResolve
  \/ InitWriteAck
  \/ Tick
  \/ TimerFire
  \/ handlePageChange(NavTargets)
  \/ onProjectSelect
  \/ onBack
  \/ handleUnlockSite(Passwords)
  \/ handleAdminLoginForUnlock
  \/ handleLogout
  \/ onLoginSuccess
  \/ setThemeSettings({"isPasswordProtectionEnabled", "sitePassword"})

LockSpec == Init /\ [][NextLock]_vars

(* Lock and reload: the protection flag changed by the editor and by the
   loads of two locales.  React runs the passive effects of a committed
   render, so the flush of pending effects is weakly fair. *)
NextLockLoad ==
  \/ RunEffects
  \/ ChangeLanguage(MaxLocaleEditing)
  \/ ReadResolve
  \/ InitWriteAck
  \/ Tick
  \/ TimerFire
  \/ handlePageChange({"Settings"})
  \/ onLoginSuccess
  \/ handleUnlockSite({"abc123", "s3cret"})
  \/ setThemeSettings({"isPasswordProtectionEnabled"})

LockFairSpec == Init /\ [][NextLockLoad]_vars /\ WF_vars(RunEffects)

(* Lock, navigation and reload together: navigation, project selection,
   unlock by password, login and logout, the editor changing the protection
   flag and the site password, and a locale change that loads the document
   again *)
NextLockAll ==
  \/ RunEffects
  \/ ChangeLanguage(MaxLocaleEditing)
  \/ ReadResolve
  \/ InitWriteAck
  \/ Tick
  \/ TimerFire
  \/ handlePageChange({"Projects", "Settings"})
  \/ onProjectSelect
  \/ handleUnlockSite({"abc123", "s3cret"})
  \/ handleLogout
  \/ onLoginSuccess
  \/ setThemeSettings({"isPasswordProtectionEnabled", "sitePassword"})

LockAllSpec == Init /\ [][NextLockAll]_vars

(* Loading under fairness: the effects of a committed render run, and the
   store answers every get and every set (with a result or an error) *)
LoadFairSpec ==
  /\ Init /\ [][NextLoad]_vars
  /\ WF_vars(RunEffects) /\ WF_vars(ReadResolve) /\ WF_vars(InitWriteAck)

----------------------------------------------------------------------------
(* Claims *)

isInline(url) == startsWith(url, DataPrefix)
Flag == themeSettings.isPasswordProtectionEnabled

(* Nothing is left to run: no effect, no read, no timer *)
Quiescent == ~isLoading /\ pending = {} /\ reads = <<>> /\ timers = <<>>

(* The only load of the run found no document, and nothing was edited *)
AbsentRun ==
  /\ firestore
  /\ lastLoad.outcome \in {"absent", "absent, write failed"}
  /\ nEdits = 0
  /\ nLocale = 0

(* C1, as stated: with the store available and no document, the run ends with
   the memory equal to the bundle of the locale L, after exactly one store
   write, whose payload is the bundle of L. *)
C1_OneWriteOfLocaleBundle ==
  (AbsentRun /\ Quiescent) =>
     /\ Memory = Bundle(language)
     /\ nWrites = 1
     /\ (lastEvent.op = "write" => lastEvent.arg.payload = Bundle(language))

(* C1, amended: with the store available and no document, the load issues one
   initializing write whose payload is the Vietnamese bundle whatever the
   locale; the run ends with the memory equal to the bundle of the locale L,
   after exactly two store writes, the second being the debounced save that
   the end of loading schedules, whose payload is the bundle of L. *)
C1_InitThenSave ==
  /\ (lastEvent.op = "write" /\ lastEvent.arg.kind = "init")
        => lastEvent.arg.payload = Bundle("vi")
  /\ (AbsentRun /\ Quiescent) =>
        /\ Memory = Bundle(language)
        /\ nWrites = 2
        /\ (lastEvent.op = "write" =>
              /\ lastEvent.arg.kind = "save"
              /\ lastEvent.arg.payload = Bundle(language))

C1_Witness ==
  /\ AbsentRun /\ Quiescent
  /\ language = "en"
  /\ lastEvent.op = "write"
  /\ nWrites = 2

(* C2: when a load started under the locale L finds the document D, then in
   the state it leaves every field of personalInfo and themeSettings that D
   defines has D's value, every other field has the default (L's personal
   info, the initial theme), and each of the four collections is D's when D
   has it and L's default otherwise, whole. *)
Defines(D, k, f) == k \in DOMAIN D /\ f \in DOMAIN D[k]

C2_MergeOnLoad ==
  (lastEvent.op = "fetchData" /\ lastEvent.ret = "exists") =>
    LET D == lastEvent.arg.data
        L == lastEvent.arg.lang
    IN /\ DOMAIN personalInfo = PersonalInfoFields
       /\ \A f \in PersonalInfoFields :
            personalInfo[f] = IF Defines(D, "personalInfo", f) THEN D.personalInfo[f]
                              ELSE basePersonalInfo(L)[f]
       /\ DOMAIN themeSettings = ThemeFields
       /\ \A f \in ThemeFields :
            themeSettings[f] = IF Defines(D, "themeSettings", f) THEN D.themeSettings[f]
                               ELSE INITIAL_THEME_SETTINGS[f]
       /\ workExperience = IF "workExperience" \in DOMAIN D THEN D.workExperience
                           ELSE baseWorkExperience(L)
       /\ projects = IF "projects" \in DOMAIN D THEN D.projects ELSE baseProjects(L)
       /\ certifications = IF "certifications" \in DOMAIN D THEN D.certifications
                           ELSE baseCertifications(L)
       /\ skills = IF "skills" \in DOMAIN D THEN D.skills ELSE baseSkills(L)

(* a document that defines one field of personalInfo, an empty project list
   and no work experience, loaded under the English locale *)
C2_Witness ==
  /\ lastEvent.op = "fetchData" /\ lastEvent.ret = "exists"
  /\ lastEvent.arg.lang = "en"
  /\ Defines(lastEvent.arg.data, "personalInfo", "avatarUrl")
  /\ ~Defines(lastEvent.arg.data, "personalInfo", "name")
  /\ "projects" \in DOMAIN lastEvent.arg.data /\ projects = <<>>
  /\ "workExperience" \notin DOMAIN lastEvent.arg.data
  /\ personalInfo.name = PERSONAL_INFO_EN.name

(* C3: in the state a load of an existing document leaves, running the load
   again under the same locale on the same document changes none of the six
   values. *)
C3_LoadIdempotent ==
  (lastEvent.op = "fetchData" /\ lastEvent.ret = "exists") =>
    fetchApply(Memory, lastEvent.arg.data, lastEvent.arg.lang) = Memory

(* a load under a locale that the session had loaded under before *)
C3_Witness ==
  /\ lastEvent.op = "fetchData" /\ lastEvent.ret = "exists"
  /\ nLocale = 2
  /\ lastEvent.arg.lang = language
  /\ "skills" \in DOMAIN lastEvent.arg.data
  /\ "certifications" \notin DOMAIN lastEvent.arg.data

(* C4: once loading has completed with the store available, the calls of the
   debounced save that follow one another before its timer fires leave one
   pending timer, which holds the state of the last call; the timer fires
   only when 2000 ms have passed since the last call, and then issues one
   write, of the sanitized state in memory, and leaves no timer pending. *)
C4_DebounceCoalesces ==
  /\ Len(timers) <= 1
  /\ (timers = <<>>) <=> (burst = 0)
  /\ timers # <<>> => /\ ~isLoading /\ firestore
                      /\ timers[1].remaining = WaitFor - idleMs
                      /\ pending = {} => timers[1].args = Memory
  /\ (lastEvent.op = "write" /\ lastEvent.arg.kind = "save") =>
        /\ lastEvent.arg.calls >= 1
        /\ lastEvent.arg.idle = WaitFor
        /\ lastEvent.arg.left = 0
        /\ lastEvent.arg.raw = Memory
        /\ lastEvent.arg.payload = sanitize(Memory)

(* a write that coalesces several calls, the last of them after an edit *)
C4_Witness ==
  /\ lastEvent.op = "write" /\ lastEvent.arg.kind = "save"
  /\ lastEvent.arg.calls >= 2
  /\ nEdits = 2
  /\ nWrites = 1

(* C5: in the payload of every store write, the avatar, the logo, the
   background image and the background music do not start with 'data:' and
   neither does the image of any project or certificate; a top-level field
   that did is written as the empty string, an item's image as the
   placeholder of its kind, and everything else is written as it was. *)
TopLevelWritten(raw, payload, fields) ==
  /\ DOMAIN payload = DOMAIN raw
  /\ \A f \in DOMAIN raw :
       IF f \in fields
       THEN /\ ~isInline(payload[f])
            /\ payload[f] = IF isInline(raw[f]) THEN EmptyStr ELSE raw[f]
       ELSE payload[f] = raw[f]

ItemsWritten(raw, payload, placeholder) ==
  /\ Len(payload) = Len(raw)
  /\ \A i \in DOMAIN raw :
       /\ ~isInline(payload[i].imageUrl)
       /\ payload[i] = IF isInline(raw[i].imageUrl)
                       THEN [raw[i] EXCEPT !.imageUrl = placeholder] ELSE raw[i]

C5_WritesSanitized ==
  lastEvent.op = "write" =>
    LET raw == lastEvent.arg.raw
        payload == lastEvent.arg.payload
    IN /\ TopLevelWritten(raw.personalInfo, payload.personalInfo, {"avatarUrl", "logoUrl"})
       /\ TopLevelWritten(raw.themeSettings, payload.themeSettings,
                          {"bgImageUrl", "backgroundMusicUrl"})
       /\ ItemsWritten(raw.projects, payload.projects, ProjectPlaceholder)
       /\ ItemsWritten(raw.certifications, payload.certifications, CertPlaceholder)
       /\ payload.workExperience = raw.workExperience
       /\ payload.skills = raw.skills

(* a write of a state with an inline logo and an inline project image *)
C5_Witness ==
  /\ lastEvent.op = "write"
  /\ isInline(lastEvent.arg.raw.personalInfo.logoUrl)
  /\ lastEvent.arg.payload.personalInfo.logoUrl = EmptyStr
  /\ Len(lastEvent.arg.raw.projects) = 2
  /\ isInline(lastEvent.arg.raw.projects[1].imageUrl)
  /\ lastEvent.arg.payload.projects[1].imageUrl = ProjectPlaceholder
  /\ lastEvent.arg.payload.projects[2] = lastEvent.arg.raw.projects[2]

(* C6, as stated: once the loading screen is gone, if the protection flag is
   true and no unlock has succeeded since it last became true, the site is
   locked. *)
C6_ProtectedMeansLocked ==
  (~isLoading /\ Flag /\ ~unlockedSince) => ~isSiteUnlocked

(* C7: a submission of the site password returns true and unlocks exactly
   when the password equals themeSettings.sitePassword; otherwise it returns
   false and leaves the lock state, the Authenticated flag and the content as
   they were; the failed submissions before it make no difference. *)
C7_UnlockByExactPassword ==
  [][lastEvent'.op = "handleUnlockSite" =>
       /\ isLocked
       /\ (lastEvent'.ret = "true") <=> (lastEvent'.arg = themeSettings.sitePassword)
       /\ lastEvent'.ret = "true" => isSiteUnlocked'
       /\ lastEvent'.ret = "false" =>
            /\ ~isSiteUnlocked'
            /\ UNCHANGED <<isSiteUnlocked, isAuthenticated, content>>]_vars

(* the right password unlocks after two failed submissions *)
C7_Witness ==
  /\ lastEvent.op = "handleUnlockSite" /\ lastEvent.ret = "true"
  /\ failedAttempts = MaxAttempts
  /\ isSiteUnlocked

(* C8: while the protection flag is false the site, once unlocked, stays
   unlocked, and whenever the flag is false the site becomes unlocked. *)
C8_UnprotectedMeansUnlocked ==
  /\ [][(~Flag /\ isSiteUnlocked /\ ~Flag') => isSiteUnlocked']_vars
  /\ (~Flag) ~> (~Flag /\ isSiteUnlocked)

(* a reload has just delivered the flag as false to a locked site *)
C8_Witness ==
  /\ lastEvent.op = "fetchData" /\ lastEvent.ret = "exists"
  /\ ~Flag /\ ~isSiteUnlocked
  /\ "lock" \in pending
  /\ nLocale = 1

(* C9: the admin credentials submitted in the lock modal return true and
   unlock exactly when they are ("Minh", "2004"), and never change
   Authenticated; wrong credentials change neither; a successful login in
   Settings sets Authenticated and leaves the lock state as it was. *)
C9_LockAndLoginOrthogonal ==
  [][/\ lastEvent'.op = "handleAdminLoginForUnlock" =>
          /\ isLocked
          /\ (lastEvent'.ret = "true") <=> (lastEvent'.arg = <<"Minh", "2004">>)
          /\ lastEvent'.ret = "true" => isSiteUnlocked'
          /\ lastEvent'.ret = "false" => ~isSiteUnlocked'
          /\ UNCHANGED isAuthenticated
     /\ lastEvent'.op = "onLoginSuccess" =>
          /\ isAuthenticated'
          /\ UNCHANGED isSiteUnlocked]_vars

(* the site unlocked by the admin credentials with Authenticated still false *)
C9_Witness ==
  /\ lastEvent.op = "handleAdminLoginForUnlock" /\ lastEvent.ret = "true"
  /\ isSiteUnlocked /\ ~isAuthenticated

(* C10, as stated: logout sets Authenticated to false, the page rendered
   after it is the Introduction page, and it changes neither the lock state
   nor the content and theme values. *)
C10_LogoutShowsIntroduction ==
  [][lastEvent'.op = "handleLogout" =>
       /\ ~isAuthenticated'
       /\ renderPage' \in {"Introduction", "IntroductionLimited"}
       /\ UNCHANGED <<isSiteUnlocked, content>>]_vars

(* C11: without a store client no read is started and no write is issued,
   whatever locale changes and edits follow; once the effects of the first
   render have run loading is over, the initialization error stays, and
   until something is edited the content is the locale's defaults. *)
C11_NoStoreNoTraffic ==
  ~firestore =>
    /\ reads = <<>>
    /\ nWrites = 0
    /\ lastEvent.op \notin {"write", "fetchData"}
    /\ remote = Absent
    /\ pending = {} => ~isLoading
    /\ (pending = {} /\ nEdits = 0) => Memory = Bundle(language)

(* a session without a store client after a locale change and two edits *)
C11_Witness ==
  /\ ~firestore
  /\ ~isLoading /\ pending = {}
  /\ nLocale = 1 /\ nEdits = MaxEdits
  /\ Memory # Bundle(language)

(* C12: whenever the site is locked, what is rendered is the Introduction
   page in limited mode (behind the spinner while loading), whatever the
   current page, the selected project and Authenticated are. *)
C12_LockedShowsLimitedIntroduction ==
  /\ (isLocked /\ ~isLoading) => View = "IntroductionLimited"
  /\ ~isSiteUnlocked => View \in {"IntroductionLimited", "LoadingSpinner"}

(* a reload locked the site while an authenticated user had a project open *)
C12_Witness ==
  /\ isLocked /\ ~isLoading
  /\ selectedProject # <<>>
  /\ currentPage = "Projects"
  /\ isAuthenticated
  /\ View = "IntroductionLimited"

(* C13, as stated: from the start of a load cycle until its read has
   resolved, no debounced save is scheduled and no store write is issued. *)
ReadOutstanding == \E i \in DOMAIN reads : reads[i].phase = "get"

C13_NoSaveWhileLoading ==
  ReadOutstanding => (timers = <<>> /\ lastEvent.op # "write")

(* C14: a failing read, and a failing initializing write, leave the six
   values as they were, set the error message and end loading; when nothing
   was loaded or edited before, the values are the locale's defaults. *)
LoadFailed(e) == e.op = "fetchData" /\ e.ret \in {"failed", "absent, write failed"}

C14_LoadFailureKeepsMemory ==
  [][LoadFailed(lastEvent') =>
       /\ UNCHANGED content
       /\ error' = LoadError
       /\ ~isLoading'
       /\ lastLoad.outcome = "none" => Memory' = Bundle(lastEvent'.arg.lang)]_vars

(* the first read of an English session has failed *)
C14_Witness ==
  /\ lastEvent.op = "fetchData" /\ lastEvent.ret = "failed"
  /\ language = "en" /\ nLocale = 0
  /\ error = LoadError /\ ~isLoading
  /\ Memory = Bundle("en")

(* C15: from startup isLoading eventually becomes false, whether the store
   is unavailable, the document exists or is absent, the read or the
   initializing write fails; once false it is never true again. *)
C15_LoadingEnds ==
  /\ <>(~isLoading)
  /\ [][~isLoading => ~isLoading']_vars

(* loading has ended although the initializing write failed *)
C15_Witness ==
  /\ ~isLoading
  /\ lastEvent.op = "fetchData" /\ lastEvent.ret = "absent, write failed"
  /\ nLocale = 0

C17_SaveLeavesMemory ==
  [][(lastEvent'.op = "write" /\ lastEvent'.arg.kind = "save") =>
       /\ UNCHANGED content
       /\ lastEvent'.arg.raw = Memory'
       /\ pending' = {}
       /\ timers' = <<>>]_vars

(* a write replaced the inline avatar, which memory still holds *)
C17_Witness ==
  /\ lastEvent.op = "write" /\ lastEvent.arg.kind = "save"
  /\ isInline(personalInfo.avatarUrl)
  /\ lastEvent.arg.payload.personalInfo.avatarUrl = EmptyStr
  /\ remote.exists /\ remote.data.personalInfo.avatarUrl = EmptyStr
  /\ pending = {} /\ timers = <<>>

(* C18: the Settings editor is rendered exactly when the site is unlocked,
   the page is Settings, no project is selected and Authenticated is true,
   and the login form exactly when the same holds with Authenticated false;
   a setter of the editor is called only with Authenticated true. *)
SettingsOpen ==
  isSiteUnlocked /\ currentPage = "Settings" /\ selectedProject = <<>>

C18_EditorOnlyWhenAuthenticated ==
  /\ [](/\ renderPage = "Settings" <=> (SettingsOpen /\ isAuthenticated)
        /\ renderPage = "Login" <=> (SettingsOpen /\ ~isAuthenticated))
  /\ [][nEdits' # nEdits => (isAuthenticated /\ isSiteUnlocked /\ View = "Settings")]_vars

(* the login form shown on the Settings page to a user who edited, logged
   out and came back *)
C18_Witness ==
  /\ nEdits >= 1
  /\ ~isLoading /\ SettingsOpen /\ ~isAuthenticated
  /\ renderPage = "Login"

(* C19: every read that finds the document is applied when it resolves, in
   the order the reads resolve: the document as it is then is merged over the
   defaults of the locale the read was started under, also when the locale
   has changed since, so the personal info and the collections after two
   overlapping reads are those of the read that resolved last. *)
StartedUnder(lang) == \E i \in DOMAIN reads : reads[i] = [lang |-> lang, phase |-> "get"]

C19_ReadsAppliedInCompletionOrder ==
  [][(lastEvent'.op = "fetchData" /\ lastEvent'.ret = "exists") =>
       LET L == lastEvent'.arg.lang
           D == lastEvent'.arg.data
       IN /\ StartedUnder(L)
          /\ Len(reads') = Len(reads) - 1
          /\ remote = Stored(D)
          /\ \A f \in PersonalInfoFields :
               personalInfo'[f] = IF Defines(D, "personalInfo", f) THEN D.personalInfo[f]
                                  ELSE basePersonalInfo(L)[f]
          /\ workExperience' = IF "workExperience" \in DOMAIN D THEN D.workExperience
                               ELSE baseWorkExperience(L)
          /\ projects' = IF "projects" \in DOMAIN D THEN D.projects ELSE baseProjects(L)
          /\ certifications' = IF "certifications" \in DOMAIN D THEN D.certifications
                               ELSE baseCertifications(L)
          /\ skills' = IF "skills" \in DOMAIN D THEN D.skills ELSE baseSkills(L)]_vars

(* of two overlapping reads the superseded one resolved last: the name and
   the work experience are the defaults of a locale that is no longer active *)
C19_Witness ==
  /\ lastEvent.op = "fetchData" /\ lastEvent.ret = "exists"
  /\ lastEvent.arg.lang # language
  /\ nLocale = 2
  /\ reads = <<>>
  /\ personalInfo.name = basePersonalInfo(lastEvent.arg.lang).name
  /\ workExperience = baseWorkExperience(lastEvent.arg.lang)
  /\ workExperience # baseWorkExperience(language)

(* C20: an unlocked site is locked again only by the lock effect running
   with the protection flag true, and that effect is pending with the flag
   true only after a step in which the flag changed from false to true: no
   locale change, reload with the flag unchanged, change of the site
   password, login, logout or navigation locks the site again. *)
C20_UnlockPersists ==
  [][/\ (isSiteUnlocked /\ ~isSiteUnlocked') => (Flag /\ "lock" \in pending)
     /\ ("lock" \in pending' /\ Flag') => ~Flag]_vars

(* a reload has delivered the flag as true again to a site that the password
   had unlocked, and no lock effect is pending *)
C20_Witness ==
  /\ lastEvent.op = "fetchData" /\ lastEvent.ret = "exists"
  /\ nLocale = 1
  /\ Flag /\ isSiteUnlocked /\ unlockedSince
  /\ "lock" \notin pending
====
